---------------------------- MODULE Spec2Model ----------------------------
(***************************************************************************)
(* A model of transcribee (src/index.ts): the pipeline orchestrator main   *)
(* with its top-level rejection handler, the transcript assembler          *)
(* wordsToTranscript, the library reader readLibraryStructure with the     *)
(* prompt choice of classifyAndOrganize, and truncateTranscript.           *)
(*                                                                         *)
(* Four specifications share the module.  Spec runs main; SpecAssembler,   *)
(* SpecLibrary and SpecTruncate apply the pure functions and the library   *)
(* read to inputs drawn from bounded sets.  The variables of the           *)
(* components a specification does not run stay at their idle values.      *)
(*                                                                         *)
(* Text is a sequence of one-character strings; a path is a sequence of    *)
(* path segments.                                                          *)
(***************************************************************************)
EXTENDS Integers, Sequences, FiniteSets, TLC

VARIABLES
    \* ---- main (src/index.ts:467-611) ----
    pc,              \* the await main is suspended at, or its outcome
    inputKind,       \* what INPUT (process.argv[2]) names
    title,           \* let title
    titleLookupFailed, \* getVideoTitle took its catch branch (the fallback title)
    needsCleanup,    \* let needsCleanup
    tmpAudio,        \* whether the file TMP_AUDIO exists
    response,        \* the classification service's message (content[0])
    plan,            \* const plan, the parsed OrganizationPlan
    outputDir,       \* const outputDir
    themeInfo,       \* const themeInfo
    dirs,            \* directories created by fs.mkdir
    files,           \* files written by fs.writeFile: [dir, name]
    writes,          \* the four writeFile promises inside Promise.all
    err,             \* the stage whose failure rejected main's promise
    exitCode,        \* process.exitCode
    cleanup,         \* the handler's fs.unlink(TMP_AUDIO).catch(() => {})
    audioPath,       \* let audioPath
    inputPresent,    \* whether the local file INPUT names exists
    unlinked         \* the paths fs.unlink has removed

mainVars == <<pc, inputKind, title, titleLookupFailed, needsCleanup, tmpAudio,
              response, plan, outputDir, themeInfo, dirs, files, writes, err,
              exitCode, cleanup, audioPath, inputPresent, unlinked>>

\* The variables of the input file and of the deletions.
fileVars == <<audioPath, inputPresent, unlinked>>

VARIABLES
    \* ---- wordsToTranscript (src/index.ts:433-463) ----
    words,           \* the argument: a sequence of Word records
    transcript,      \* the string wordsToTranscript returned
    assembled        \* whether wordsToTranscript has been applied

asmVars == <<words, transcript, assembled>>

VARIABLES
    \* ---- readLibraryStructure, classifyAndOrganize (src/index.ts:150-363) ----
    rootExists,      \* whether BASE_TRANSCRIPTS_DIR exists
    disk,            \* what is below the root: path -> entry
    libPc,           \* where the library read and the prompt building stand
    tree,            \* const libraryStructure, the FolderNode returned
    folderTreeString, \* const folderTreeString
    prompt           \* which of the two prompts classifyAndOrganize built

libVars == <<rootExists, disk, libPc, tree, folderTreeString, prompt>>

VARIABLES
    \* ---- truncateTranscript (src/index.ts:252-271) ----
    text,            \* the argument text
    maxTokens,       \* the argument maxTokens
    truncated,       \* the string truncateTranscript returned
    truncPc          \* "ready", then "done" once it has been applied

truncVars == <<text, maxTokens, truncated, truncPc>>

vars == <<mainVars, asmVars, libVars, truncVars>>

\* What each component leaves alone: the variables of the other three.
notMainVars == <<asmVars, libVars, truncVars>>
notAsmVars == <<mainVars, libVars, truncVars>>
notLibVars == <<mainVars, asmVars, truncVars>>
notTruncVars == <<mainVars, asmVars, libVars>>

(***************************************************************************)
(* Paths                                                                   *)
(***************************************************************************)

\* BASE_TRANSCRIPTS_DIR = path.join(os.homedir(), 'Documents', 'transcripts')
BASE_TRANSCRIPTS_DIR == <<"home", "Documents", "transcripts">>

\* TMP_AUDIO = path.join(tmpdir(), `yt-audio-${Date.now()}.m4a`)
TMP_AUDIO == <<"tmp", "yt-audio-1762180000000.m4a">>

\* const resolvedPath = path.resolve(INPUT), for a local INPUT; the extension
\* is what inputKind tells.
resolvedPath == <<"home", "Videos", "interview">>

\* The four artifacts main writes into outputDir.
Artifacts == {"transcription-raw.txt", "transcription-raw.json",
              "transcription.txt", "metadata.json"}

\* The longest newTranscriptPath, in segments, a classifier answer carries.
MaxPlanSegments == 2

\* The segments a newTranscriptPath is made of ("a/b" is <<"a", "b">>, the
\* empty string is << >>).
PlanSegments == {"ai-podcasts", "..", "."}

RECURSIVE NormalizeFrom(_, _)
\* path.normalize on the segments of an absolute path: "." and "" vanish,
\* ".." removes the segment before it (and stays at the filesystem root).
NormalizeFrom(acc, segs) ==
    IF segs = << >> THEN acc
    ELSE LET s == Head(segs)
             next == IF s = "." \/ s = "" THEN acc
                     ELSE IF s = ".."
                          THEN (IF acc = << >> THEN acc
                                ELSE SubSeq(acc, 1, Len(acc) - 1))
                          ELSE Append(acc, s)
         IN  NormalizeFrom(next, Tail(segs))

\* A mutant of PathJoin: the category segment is dropped from the join.
PathJoinNoCategory(base, rel, leaf) == NormalizeFrom(<< >>, base \o <<leaf>>)

\* path.join(base, rel, leaf): the arguments joined with "/" and normalized.
PathJoin(base, rel, leaf) == NormalizeFrom(<< >>, base \o rel \o <<leaf>>)

\* `${title}-${dateStr}`: a title holds no path separator (getVideoTitle and
\* getTitleFromPath replace "/" and "\" by "-"), so this is one segment.
LeafName(t) == t \o "-2026-11-03"

(***************************************************************************)
(* The classification service's answers                                    *)
(***************************************************************************)

RECURSIVE SeqsUpTo(_, _)
\* All sequences over S of length at most n.
SeqsUpTo(S, n) ==
    IF n = 0 THEN {<< >>}
    ELSE LET shorter == SeqsUpTo(S, n - 1)
         IN  shorter \cup {Append(q, x) : q \in {r \in shorter : Len(r) = n - 1}, x \in S}

\* What JSON.parse(content.text) can give: null, a value with no fields (a
\* number, a string, an array), or an object whose three fields are each
\* missing, of the wrong type, or present.
PlanValues ==
    {[kind |-> "null"], [kind |-> "scalar"]} \cup
    {[kind |-> "object", newTranscriptPath |-> p, reasoning |-> r, confidence |-> c] :
        p \in {[is |-> "missing"], [is |-> "number"]} \cup
              {[is |-> "string", segs |-> s] : s \in SeqsUpTo(PlanSegments, MaxPlanSegments)},
        r \in {"a string", "no field", "not a string"},
        c \in {"high", "medium", "low", "no field", "very high"}}

\* message.content[0]: a block that is not text, or a text block whose text
\* is not JSON, or one whose text is the JSON of a value.
Responses ==
    {[type |-> "tool_use"], [type |-> "text", json |-> "unparsable"]} \cup
    {[type |-> "text", json |-> "value", value |-> v] : v \in PlanValues}

\* plan.newTranscriptPath is a string (path.join accepts it).
HasStringPath(v) == v.kind = "object" /\ v.newTranscriptPath.is = "string"

\* The text is valid JSON carrying all three Organization Plan fields.
IsOrganizationPlan(v) ==
    /\ HasStringPath(v)
    /\ v.reasoning = "a string"
    /\ v.confidence \in {"high", "medium", "low"}

NoValue == [kind |-> "none"]

(***************************************************************************)
(* main                                                                    *)
(***************************************************************************)

InputKinds == {"url", "video", "audio", "missing", "unsupported"}

MainInit ==
    /\ pc = "start"
    /\ inputKind \in InputKinds
    /\ title = "none"
    /\ titleLookupFailed = FALSE
    /\ needsCleanup = FALSE
    /\ tmpAudio = FALSE
    /\ response = NoValue
    /\ plan = NoValue
    /\ outputDir = << >>
    /\ themeInfo = NoValue
    /\ dirs = {}
    /\ files = {}
    /\ writes = [a \in Artifacts |-> "idle"]
    /\ err = "none"
    /\ exitCode = 0
    /\ cleanup = "none"
    /\ audioPath = << >>
    /\ inputPresent = (inputKind \in {"video", "audio", "unsupported"})
    /\ unlinked = {}

\* main's promise rejects with the error of `stage`.
Reject(stage) == pc' = "rejected" /\ err' = stage

\* if (isUrl(INPUT)) ... else ...  (lines 476, 489-491)
ResolveInput ==
    /\ pc = "start"
    /\ pc' = IF inputKind = "url" THEN "getVideoTitle" ELSE "access"
    /\ UNCHANGED <<inputKind, title, titleLookupFailed, needsCleanup, tmpAudio,
                   response, plan, outputDir, themeInfo, dirs, files, writes,
                   err, exitCode, cleanup>>
    /\ UNCHANGED fileVars
    /\ UNCHANGED notMainVars

\* title = await getVideoTitle(INPUT): yt-dlp's title, or on any failure the
\* fallback `video-${Date.now()}`; it never throws.
GetVideoTitle ==
    /\ pc = "getVideoTitle"
    /\ \/ title' = "talk" /\ titleLookupFailed' = FALSE
       \/ title' = "video-1762180000000" /\ titleLookupFailed' = TRUE
    /\ pc' = "downloadAudio"
    /\ UNCHANGED <<inputKind, needsCleanup, tmpAudio, response, plan, outputDir,
                   themeInfo, dirs, files, writes, err, exitCode, cleanup>>
    /\ UNCHANGED fileVars
    /\ UNCHANGED notMainVars

\* await downloadAudio(INPUT, TMP_AUDIO); audioPath = TMP_AUDIO; needsCleanup = true
\* A failed yt-dlp may or may not leave a file at TMP_AUDIO.
DownloadAudio ==
    /\ pc = "downloadAudio"
    /\ \/ /\ tmpAudio' = TRUE
          /\ audioPath' = TMP_AUDIO
          /\ needsCleanup' = TRUE
          /\ pc' = "transcribe"
          /\ err' = err
       \/ /\ tmpAudio' \in BOOLEAN
          /\ audioPath' = audioPath
          /\ needsCleanup' = needsCleanup
          /\ Reject("download")
    /\ UNCHANGED <<inputPresent, unlinked>>
    /\ UNCHANGED <<inputKind, title, titleLookupFailed, response, plan, outputDir,
                   themeInfo, dirs, files, writes, exitCode, cleanup>>
    /\ UNCHANGED notMainVars

\* await fs.access(resolvedPath), else throw "File not found"
AccessInput ==
    /\ pc = "access"
    /\ IF inputKind = "missing"
       THEN Reject("input")
       ELSE pc' = "checkExtension" /\ err' = err
    /\ UNCHANGED <<inputKind, title, titleLookupFailed, needsCleanup, tmpAudio,
                   response, plan, outputDir, themeInfo, dirs, files, writes,
                   exitCode, cleanup>>
    /\ UNCHANGED fileVars
    /\ UNCHANGED notMainVars

\* The extension check, title = getTitleFromPath(resolvedPath), and the
\* branch on isVideoFile (lines 500-519): an audio file is used as it is,
\* audioPath = resolvedPath.
CheckExtension ==
    /\ pc = "checkExtension"
    /\ IF inputKind = "unsupported"
       THEN Reject("input") /\ UNCHANGED <<title, audioPath>>
       ELSE /\ title' = "interview"
            /\ pc' = IF inputKind = "video" THEN "extractAudio" ELSE "transcribe"
            /\ audioPath' = IF inputKind = "video" THEN audioPath ELSE resolvedPath
            /\ err' = err
    /\ UNCHANGED <<inputPresent, unlinked>>
    /\ UNCHANGED <<inputKind, titleLookupFailed, needsCleanup, tmpAudio, response,
                   plan, outputDir, themeInfo, dirs, files, writes, exitCode,
                   cleanup>>
    /\ UNCHANGED notMainVars

\* await extractAudioFromVideo(resolvedPath, TMP_AUDIO); needsCleanup = true
ExtractAudio ==
    /\ pc = "extractAudio"
    /\ \/ /\ tmpAudio' = TRUE
          /\ audioPath' = TMP_AUDIO
          /\ needsCleanup' = TRUE
          /\ pc' = "transcribe"
          /\ err' = err
       \/ /\ tmpAudio' \in BOOLEAN
          /\ audioPath' = audioPath
          /\ needsCleanup' = needsCleanup
          /\ Reject("extract")
    /\ UNCHANGED <<inputPresent, unlinked>>
    /\ UNCHANGED <<inputKind, title, titleLookupFailed, response, plan, outputDir,
                   themeInfo, dirs, files, writes, exitCode, cleanup>>
    /\ UNCHANGED notMainVars

\* const resp = await transcribeAudio(audioPath)
TranscribeAudio ==
    /\ pc = "transcribe"
    /\ \/ pc' = "assemble" /\ err' = err
       \/ Reject("transcribe")
    /\ UNCHANGED <<inputKind, title, titleLookupFailed, needsCleanup, tmpAudio,
                   response, plan, outputDir, themeInfo, dirs, files, writes,
                   exitCode, cleanup>>
    /\ UNCHANGED fileVars
    /\ UNCHANGED notMainVars

\* resp.words.map(...) and wordsToTranscript(words): synchronous, no I/O.
AssembleTranscript ==
    /\ pc = "assemble"
    /\ pc' = "readLibrary"
    /\ UNCHANGED <<inputKind, title, titleLookupFailed, needsCleanup, tmpAudio,
                   response, plan, outputDir, themeInfo, dirs, files, writes,
                   err, exitCode, cleanup>>
    /\ UNCHANGED fileVars
    /\ UNCHANGED notMainVars

\* const libraryStructure = await readLibraryStructure(): fs.readdir can fail.
ReadLibrary ==
    /\ pc = "readLibrary"
    /\ \/ pc' = "classify" /\ err' = err
       \/ Reject("readLibrary")
    /\ UNCHANGED <<inputKind, title, titleLookupFailed, needsCleanup, tmpAudio,
                   response, plan, outputDir, themeInfo, dirs, files, writes,
                   exitCode, cleanup>>
    /\ UNCHANGED fileVars
    /\ UNCHANGED notMainVars

\* Lines 355-362: content.type !== 'text' throws, JSON.parse throws on text
\* that is not JSON, and the parsed value is returned as it is.
ParseResponse(r) ==
    IF r.type = "text" /\ r.json = "value" THEN r.value ELSE [kind |-> "throws"]

\* const plan = await classifyAndOrganize(...): the request fails, or the
\* service answers and the answer is parsed.
Classify ==
    /\ pc = "classify"
    /\ \/ /\ Reject("classify")
          /\ UNCHANGED <<response, plan>>
       \/ \E r \in Responses :
            /\ response' = r
            /\ IF ParseResponse(r).kind = "throws"
               THEN Reject("classify") /\ plan' = plan
               ELSE plan' = ParseResponse(r) /\ pc' = "outputDir" /\ err' = err
    /\ UNCHANGED <<inputKind, title, titleLookupFailed, needsCleanup, tmpAudio,
                   outputDir, themeInfo, dirs, files, writes, exitCode, cleanup>>
    /\ UNCHANGED fileVars
    /\ UNCHANGED notMainVars

\* Lines 548-555: plan.newTranscriptPath of null throws a TypeError, and
\* path.join throws a TypeError on an argument that is not a string.
ComputeOutputDir ==
    /\ pc = "outputDir"
    /\ IF HasStringPath(plan)
       THEN /\ outputDir' = PathJoin(BASE_TRANSCRIPTS_DIR, plan.newTranscriptPath.segs,
                                     LeafName(title))
            /\ pc' = "mkdir"
            /\ err' = err
       ELSE Reject("classify") /\ outputDir' = outputDir
    /\ UNCHANGED <<inputKind, title, titleLookupFailed, needsCleanup, tmpAudio,
                   response, plan, themeInfo, dirs, files, writes, exitCode,
                   cleanup>>
    /\ UNCHANGED fileVars
    /\ UNCHANGED notMainVars

\* await fs.mkdir(outputDir, { recursive: true })
Mkdir ==
    /\ pc = "mkdir"
    /\ \/ dirs' = dirs \cup {outputDir} /\ pc' = "startWrites" /\ err' = err
       \/ dirs' = dirs /\ Reject("mkdir")
    /\ UNCHANGED <<inputKind, title, titleLookupFailed, needsCleanup, tmpAudio,
                   response, plan, outputDir, themeInfo, files, writes, exitCode,
                   cleanup>>
    /\ UNCHANGED fileVars
    /\ UNCHANGED notMainVars

\* Lines 559-595, up to the await: themeInfo is built and the four writeFile
\* calls are started.
StartWrites ==
    /\ pc = "startWrites"
    /\ themeInfo' = [primaryTheme |-> IF plan.newTranscriptPath.segs = << >>
                                      THEN <<"general">>
                                      ELSE plan.newTranscriptPath.segs,
                     folderName |-> plan.newTranscriptPath.segs,
                     confidence |-> plan.confidence,
                     summary |-> plan.reasoning]
    /\ writes' = [a \in Artifacts |-> "pending"]
    /\ pc' = "writes"
    /\ UNCHANGED <<inputKind, title, titleLookupFailed, needsCleanup, tmpAudio,
                   response, plan, outputDir, dirs, files, err, exitCode, cleanup>>
    /\ UNCHANGED fileVars
    /\ UNCHANGED notMainVars

\* One fs.writeFile settles: the file is written, or the call fails (and the
\* file is not created).  The other three are independent of it.
WriteSettles(a) ==
    /\ writes[a] = "pending"
    /\ \/ /\ writes' = [writes EXCEPT ![a] = "fulfilled"]
          /\ files' = files \cup {[dir |-> outputDir, name |-> a]}
       \/ /\ writes' = [writes EXCEPT ![a] = "rejected"]
          /\ files' = files
    /\ UNCHANGED <<pc, inputKind, title, titleLookupFailed, needsCleanup, tmpAudio,
                   response, plan, outputDir, themeInfo, dirs, err, exitCode,
                   cleanup>>
    /\ UNCHANGED fileVars
    /\ UNCHANGED notMainVars

\* await Promise.all([...]) resumes main once all four are fulfilled.
AllWritesFulfilled ==
    /\ pc = "writes"
    /\ \A a \in Artifacts : writes[a] = "fulfilled"
    /\ pc' = "unlink"
    /\ UNCHANGED <<inputKind, title, titleLookupFailed, needsCleanup, tmpAudio,
                   response, plan, outputDir, themeInfo, dirs, files, writes, err,
                   exitCode, cleanup>>
    /\ UNCHANGED fileVars
    /\ UNCHANGED notMainVars

\* Promise.all rejects as soon as one of the four rejects; the others are not
\* cancelled and settle later.
SomeWriteRejected ==
    /\ pc = "writes"
    /\ \E a \in Artifacts : writes[a] = "rejected"
    /\ Reject("write")
    /\ UNCHANGED <<inputKind, title, titleLookupFailed, needsCleanup, tmpAudio,
                   response, plan, outputDir, themeInfo, dirs, files, writes,
                   exitCode, cleanup>>
    /\ UNCHANGED fileVars
    /\ UNCHANGED notMainVars

\* fs.unlink(p) succeeds: the file at p is gone.
Unlink(p) ==
    /\ unlinked' = unlinked \cup {p}
    /\ tmpAudio' = IF p = TMP_AUDIO THEN FALSE ELSE tmpAudio
    /\ inputPresent' = IF p = resolvedPath THEN FALSE ELSE inputPresent

\* The file at p exists.
Exists(p) ==
    \/ p = TMP_AUDIO /\ tmpAudio
    \/ p = resolvedPath /\ inputPresent

\* A mutant of FinalUnlink: the audio file that was transcribed is removed,
\* whichever it is: await fs.unlink(audioPath) with no needsCleanup test.
FinalUnlinkAudioPath ==
    /\ pc = "unlink"
    /\ \/ Exists(audioPath) /\ Unlink(audioPath) /\ pc' = "done" /\ err' = err
       \/ UNCHANGED <<tmpAudio, inputPresent, unlinked>> /\ Reject("unlink")
    /\ UNCHANGED <<inputKind, title, titleLookupFailed, needsCleanup, response, plan,
                   outputDir, themeInfo, dirs, files, writes, exitCode, cleanup,
                   audioPath>>
    /\ UNCHANGED notMainVars

\* if (needsCleanup) await fs.unlink(TMP_AUDIO)   (lines 600-605)
FinalUnlink ==
    /\ pc = "unlink"
    /\ IF needsCleanup
       THEN \/ Exists(TMP_AUDIO) /\ Unlink(TMP_AUDIO) /\ pc' = "done" /\ err' = err
            \/ UNCHANGED <<tmpAudio, inputPresent, unlinked>> /\ Reject("unlink")
       ELSE UNCHANGED <<tmpAudio, inputPresent, unlinked>> /\ pc' = "done" /\ err' = err
    /\ UNCHANGED audioPath
    /\ UNCHANGED <<inputKind, title, titleLookupFailed, needsCleanup, response, plan,
                   outputDir, themeInfo, dirs, files, writes, exitCode, cleanup>>
    /\ UNCHANGED notMainVars

\* A mutant of the handler: the unlink is awaited with no catch of its own, so
\* the exit code is only set once the file is known to be deleted.
CatchAwaitingUnlink ==
    /\ pc = "rejected"
    /\ cleanup' = "started"
    /\ exitCode' = IF tmpAudio THEN 1 ELSE exitCode
    /\ pc' = "handled"
    /\ UNCHANGED <<inputKind, title, titleLookupFailed, needsCleanup, tmpAudio,
                   response, plan, outputDir, themeInfo, dirs, files, writes, err>>
    /\ UNCHANGED fileVars
    /\ UNCHANGED notMainVars

\* main().catch((err) => { console.error; fs.unlink(TMP_AUDIO).catch(() => {});
\* process.exitCode = 1; })   (lines 608-612): the unlink is started, not
\* awaited, and the exit code is set in the same turn.
Catch ==
    /\ pc = "rejected"
    /\ cleanup' = "started"
    /\ exitCode' = 1
    /\ pc' = "handled"
    /\ UNCHANGED <<inputKind, title, titleLookupFailed, needsCleanup, tmpAudio,
                   response, plan, outputDir, themeInfo, dirs, files, writes, err>>
    /\ UNCHANGED fileVars
    /\ UNCHANGED notMainVars

\* The handler's unlink settles: the file is deleted, or the call fails (the
\* file does not exist, or cannot be removed) and .catch(() => {}) swallows it.
CleanupSettles ==
    /\ cleanup = "started"
    /\ \/ Exists(TMP_AUDIO) /\ Unlink(TMP_AUDIO) /\ cleanup' = "deleted"
       \/ UNCHANGED <<tmpAudio, inputPresent, unlinked>> /\ cleanup' = "swallowed"
    /\ UNCHANGED audioPath
    /\ UNCHANGED <<pc, inputKind, title, titleLookupFailed, needsCleanup, response,
                   plan, outputDir, themeInfo, dirs, files, writes, err, exitCode>>
    /\ UNCHANGED notMainVars

MainNext ==
    \/ ResolveInput
    \/ GetVideoTitle
    \/ DownloadAudio
    \/ AccessInput
    \/ CheckExtension
    \/ ExtractAudio
    \/ TranscribeAudio
    \/ AssembleTranscript
    \/ ReadLibrary
    \/ Classify
    \/ ComputeOutputDir
    \/ Mkdir
    \/ StartWrites
    \/ \E a \in Artifacts : WriteSettles(a)
    \/ AllWritesFulfilled
    \/ SomeWriteRejected
    \/ FinalUnlink
    \/ Catch
    \/ CleanupSettles

\* The run is over: main has returned or its rejection has been handled, and
\* nothing it started is still in flight.
RunEnded ==
    /\ pc \in {"done", "handled"}
    /\ cleanup # "started"
    /\ \A a \in Artifacts : writes[a] # "pending"

(***************************************************************************)
(* Properties of main                                                      *)
(***************************************************************************)

\* The artifacts present in the destination directory.
ArtifactsPresent == {a \in Artifacts : [dir |-> outputDir, name |-> a] \in files}

\* C1: at the end of every run, the destination directory holds all four
\* artifacts or none of them.
C1_AllOrNothing == RunEnded => Cardinality(ArtifactsPresent) \in {0, 4}

\* C2 as stated: whichever stage failed, the title lookup included, the run
\* ends with the cleanup attempted and a non-zero outcome.
C2_EveryStageFailureIsFatal ==
    (RunEnded /\ (err # "none" \/ titleLookupFailed))
        => (exitCode = 1 /\ cleanup \in {"deleted", "swallowed"})

\* C2 as amended: a failure of any stage but the title lookup reaches the
\* handler, which attempts the deletion of TMP_AUDIO and sets the non-zero
\* outcome whether or not that deletion succeeds; a run in which nothing but
\* the title lookup failed ends with outcome 0.
C2_UnrecoveredFailureIsFatal ==
    /\ (err # "none") => pc \in {"rejected", "handled"}
    /\ (pc = "handled") => (exitCode = 1 /\ cleanup # "none")
    /\ (RunEnded /\ err # "none")
          => (exitCode = 1 /\ cleanup \in {"deleted", "swallowed"})
    /\ (RunEnded /\ err = "none") => (exitCode = 0 /\ cleanup = "none")

\* A write failed, the handler's deletion of TMP_AUDIO failed too (the file
\* does not exist) and was swallowed, and the outcome is non-zero.
C2_Witness ==
    RunEnded /\ err = "write" /\ cleanup = "swallowed" /\ ~tmpAudio /\ exitCode = 1

\* The service's answer is not a text block holding the JSON of a complete
\* Organization Plan.
InvalidResponse ==
    /\ response # NoValue
    /\ ~(response.type = "text" /\ response.json = "value"
         /\ IsOrganizationPlan(response.value))

\* C7: an answer that is not a complete Organization Plan is fatal: no
\* directory is created, nothing is written, no theme is made up, and the
\* outcome is non-zero.
C7_InvalidPlanIsFatal ==
    InvalidResponse =>
        /\ dirs = {}
        /\ files = {}
        /\ themeInfo = NoValue
        /\ RunEnded => exitCode = 1

\* The directory is root/<category>/<leaf>: two segments below the root.
TwoBelowRoot(d) ==
    /\ Len(d) = Len(BASE_TRANSCRIPTS_DIR) + 2
    /\ SubSeq(d, 1, Len(BASE_TRANSCRIPTS_DIR)) = BASE_TRANSCRIPTS_DIR

\* C8 as stated: whatever plan the classifier returned, every artifact is
\* written exactly two segments below the archive root.
C8_AlwaysTwoBelowRoot == \A f \in files : TwoBelowRoot(f.dir)

\* A path with no "." and no ".." segment.
PlainSegments(p) == \A i \in 1..Len(p) : p[i] \notin {".", "..", ""}

\* C8 as amended: every artifact is written in the created directory
\* path.join(root, newTranscriptPath, leaf); that is root/<category>/<leaf>
\* when newTranscriptPath is one plain segment, and root followed by the
\* segments of newTranscriptPath and the leaf whenever they are all plain.
C8_DestinationFollowsPlan ==
    \A f \in files :
        /\ HasStringPath(plan)
        /\ f.dir = outputDir
        /\ outputDir \in dirs
        /\ LET p == plan.newTranscriptPath.segs
           IN  /\ PlainSegments(p)
                    => f.dir = BASE_TRANSCRIPTS_DIR \o p \o <<LeafName(title)>>
               /\ (Len(p) = 1 /\ PlainSegments(p)) => TwoBelowRoot(f.dir)

\* All four artifacts written under a single-segment category.
C8_Witness ==
    /\ Cardinality(files) = 4
    /\ plan.newTranscriptPath.segs = <<"ai-podcasts">>
    /\ \A f \in files :
          f.dir = BASE_TRANSCRIPTS_DIR \o <<"ai-podcasts", LeafName("talk")>>

\* The operations in flight: the call main is suspended at, the writeFile
\* calls that have not settled, and the handler's unlink.
AwaitedCalls ==
    {"getVideoTitle", "downloadAudio", "access", "extractAudio", "transcribe",
     "readLibrary", "classify", "mkdir", "unlink"}

InFlight ==
    (IF pc \in AwaitedCalls THEN {pc} ELSE {})
        \cup {a \in Artifacts : writes[a] = "pending"}
        \cup (IF cleanup = "started" THEN {"handler unlink"} ELSE {})

\* Operations are in flight together only when they are all artifact writes.
OnlyWritesOverlap == Cardinality(InFlight) > 1 => InFlight \subseteq Artifacts

\* Where main stands tells which stages have completed: the title and the
\* audio are there before transcription, the plan before the destination is
\* computed, the directory before the writes, the four writes before the
\* final unlink.
StagesInOrder ==
    /\ (pc \in {"transcribe", "assemble", "readLibrary", "classify", "outputDir",
                "mkdir", "startWrites", "writes", "unlink", "done"}) =>
          /\ title # "none"
          /\ audioPath # << >>
          /\ (audioPath = TMP_AUDIO) = needsCleanup
    /\ (pc \in {"outputDir", "mkdir", "startWrites", "writes", "unlink", "done"}) =>
          plan # NoValue
    /\ (pc \in {"startWrites", "writes", "unlink", "done"}) => outputDir \in dirs
    /\ (pc \in {"unlink", "done"}) => \A a \in Artifacts : writes[a] = "fulfilled"
    /\ (\E a \in Artifacts : writes[a] # "idle") => outputDir \in dirs

\* No directory is created before classification has returned a plan: a run
\* that failed before or in classification has created none.
ArchiveUntouchedBeforePlan ==
    /\ (dirs # {} \/ files # {}) => HasStringPath(plan)
    /\ (err \in {"input", "download", "extract", "transcribe", "readLibrary",
                  "classify"}) => (dirs = {} /\ files = {})

\* On the success path the temporary file is deleted after the four writes.
TempDeletedAfterWrites ==
    (err = "none" /\ unlinked # {}) => \A a \in Artifacts : writes[a] = "fulfilled"

\* C12: the stages run one at a time in order, each after the one before it
\* has completed; the four artifact writes are the only operations in flight
\* at the same time; no directory is created before the plan is there; and
\* on the success path the temporary audio file is deleted only after all
\* four writes have completed.
C12_StagesOneAtATime ==
    /\ StagesInOrder
    /\ OnlyWritesOverlap
    /\ ArchiveUntouchedBeforePlan
    /\ TempDeletedAfterWrites

\* C13: the only file a run deletes is TMP_AUDIO: on the success path and
\* on the handler's path, for a URL, a local video and a local audio file,
\* the input file stays where it is, and no artifact or directory of the
\* archive is ever removed.
C13_OnlyTmpAudioDeleted ==
    /\ [](/\ unlinked \subseteq {TMP_AUDIO}
          /\ inputPresent = (inputKind \in {"video", "audio", "unsupported"})
          /\ (needsCleanup = FALSE /\ pc = "done") => unlinked = {})
    /\ [][files \subseteq files' /\ dirs \subseteq dirs']_vars

\* A run on a local audio file, transcribed from the input path itself, has
\* ended after the handler's unlink ran, and the input file is still there.
C13_Witness ==
    /\ RunEnded
    /\ inputKind = "audio"
    /\ audioPath = resolvedPath
    /\ needsCleanup = FALSE
    /\ cleanup = "swallowed"
    /\ Cardinality(files) = 3
    /\ inputPresent
    /\ unlinked = {}

(***************************************************************************)
(* wordsToTranscript (src/index.ts:433-463)                                *)
(***************************************************************************)

\* The longest token sequence.
MaxWords == 3

Speakers == {<<"A">>, <<"B">>}

\* The tokens: a word, a word that starts with a punctuation character (".b"),
\* a word with no text (a record without text is given ''), the punctuation
\* tokens "." and "-", and a spacing token.  No text holds a line break.
TokenShapes ==
    {[text |-> <<"a">>, type |-> "word"],
     [text |-> <<".", "b">>, type |-> "word"],
     [text |-> << >>, type |-> "word"],
     [text |-> <<".">>, type |-> "punctuation"],
     [text |-> <<"-">>, type |-> "punctuation"],
     [text |-> <<" ">>, type |-> "spacing"]}

Tokens ==
    {[text |-> t.text, type |-> t.type, speaker_id |-> sp] :
        t \in TokenShapes, sp \in Speakers}

\* What the regular expression's \s matches (of the characters used here).
IsSpace(c) == c \in {" ", "\n", "\t"}

\* The character class [.,!?;:] of the regular expression.
PunctuationChars == {".", ",", "!", "?", ";", ":"}

RECURSIVE JoinWith(_, _)
\* Array.prototype.join: the strings of `parts` with `sep` between them.
JoinWith(parts, sep) ==
    IF parts = << >> THEN << >>
    ELSE IF Len(parts) = 1 THEN parts[1]
    ELSE parts[1] \o sep \o JoinWith(Tail(parts), sep)

\* The first index at or after i of s that holds no whitespace (Len(s) + 1
\* when there is none): where the greedy \s+ started at i stops.
SpaceRunEnd(s, i) ==
    IF \E j \in i..Len(s) : ~IsSpace(s[j])
    THEN CHOOSE j \in i..Len(s) :
            ~IsSpace(s[j]) /\ \A k \in i..(j - 1) : IsSpace(s[k])
    ELSE Len(s) + 1

RECURSIVE KeepAllFrom(_, _)
\* A mutant of ReplaceFrom: the replace is left out.
KeepAllFrom(s, i) == IF i > Len(s) THEN << >> ELSE <<s[i]>> \o KeepAllFrom(s, i + 1)

RECURSIVE ReplaceFrom(_, _)
\* s.replace(/\s+([.,!?;:])/g, '$1') from index i on: the leftmost match is
\* replaced by its punctuation character and the scan goes on after it.
ReplaceFrom(s, i) ==
    IF i > Len(s) THEN << >>
    ELSE IF IsSpace(s[i])
              /\ SpaceRunEnd(s, i) <= Len(s)
              /\ s[SpaceRunEnd(s, i)] \in PunctuationChars
         THEN <<s[SpaceRunEnd(s, i)]>> \o ReplaceFrom(s, SpaceRunEnd(s, i) + 1)
         ELSE <<s[i]>> \o ReplaceFrom(s, i + 1)

\* A mutant of Flush: a line is pushed even when the sentence is empty.
FlushAlways(st) ==
    [st EXCEPT
        !.lines = Append(@, st.currentSpeaker \o <<":", " ">>
                            \o ReplaceFrom(JoinWith(st.currentSentence, <<" ">>), 1)),
        !.currentSentence = << >>]

\* const flush (lines 440-445)
Flush(st) ==
    IF Len(st.currentSentence) > 0
    THEN [st EXCEPT
            !.lines = Append(@, st.currentSpeaker \o <<":", " ">>
                                \o ReplaceFrom(JoinWith(st.currentSentence, <<" ">>), 1)),
            !.currentSentence = << >>]
    ELSE st

\* One iteration of for (const token of words) (lines 447-459).
LoopBody(st, token) ==
    LET afterChange ==
            IF token.speaker_id # st.currentSpeaker
            THEN [Flush(st) EXCEPT !.currentSpeaker = token.speaker_id]
            ELSE st
    IN  IF token.type # "spacing"
        THEN [afterChange EXCEPT !.currentSentence = Append(@, token.text)]
        ELSE afterChange

RECURSIVE LoopFrom(_, _, _)
LoopFrom(st, ws, i) ==
    IF i > Len(ws) THEN st ELSE LoopFrom(LoopBody(st, ws[i]), ws, i + 1)

\* export function wordsToTranscript(words: Word[]): string
wordsToTranscript(ws) ==
    IF Len(ws) = 0 THEN << >>
    ELSE LET st0 == [lines |-> << >>,
                     currentSpeaker |-> ws[1].speaker_id,
                     currentSentence |-> << >>]
         IN  JoinWith(Flush(LoopFrom(st0, ws, 1)).lines, <<"\n">>)

AsmInit ==
    /\ words \in SeqsUpTo(Tokens, MaxWords)
    /\ transcript = << >>
    /\ assembled = FALSE

AsmIdle == words = << >> /\ transcript = << >> /\ assembled = FALSE

\* const structuredTranscript = wordsToTranscript(words)
Assemble ==
    /\ ~assembled
    /\ transcript' = wordsToTranscript(words)
    /\ assembled' = TRUE
    /\ words' = words
    /\ UNCHANGED notAsmVars

(***************************************************************************)
(* Properties of wordsToTranscript                                         *)
(***************************************************************************)

\* The indices at which a maximal run of one speaker_id starts.
RunStarts(ws) ==
    {i \in 1..Len(ws) : i = 1 \/ ws[i].speaker_id # ws[i - 1].speaker_id}

\* The last index of the run that starts at i.
RunLast(ws, i) ==
    CHOOSE j \in i..Len(ws) :
        /\ \A k \in i..j : ws[k].speaker_id = ws[i].speaker_id
        /\ j = Len(ws) \/ ws[j + 1].speaker_id # ws[i].speaker_id

\* The texts of the non-spacing tokens of the run that starts at i.
NonSpacing(tok) == tok.type # "spacing"
RunTokens(ws, i) == SelectSeq(SubSeq(ws, i, RunLast(ws, i)), NonSpacing)

\* The runs that hold a token other than spacing.
TextRunStarts(ws) == {i \in RunStarts(ws) : RunTokens(ws, i) # << >>}

\* The lines of a string: none for the empty string, else one more than its
\* line breaks.
LineCount(s) ==
    IF s = << >> THEN 0 ELSE 1 + Cardinality({i \in 1..Len(s) : s[i] = "\n"})

NoLineBreaks(ws) ==
    \A i \in 1..Len(ws) : \A k \in 1..Len(ws[i].text) : ws[i].text[k] # "\n"

\* C3 as stated: the output has as many lines as the input has maximal
\* same-speaker runs, runs of spacing tokens alone included.
C3_LinePerRun == assembled => LineCount(transcript) = Cardinality(RunStarts(words))

\* C3 as amended: when no token text holds a line break, the output has as
\* many lines as the input has maximal same-speaker runs holding at least one
\* token that is not spacing; a run of spacing tokens alone gives no line.
C3_LinePerRunWithText ==
    (assembled /\ NoLineBreaks(words))
        => LineCount(transcript) = Cardinality(TextRunStarts(words))

\* Three runs, the middle one of spacing alone, and two lines.
C3_Witness ==
    /\ assembled
    /\ words = <<[text |-> <<"a">>, type |-> "word", speaker_id |-> <<"A">>],
                 [text |-> <<" ">>, type |-> "spacing", speaker_id |-> <<"B">>],
                 [text |-> <<"a">>, type |-> "word", speaker_id |-> <<"A">>]>>
    /\ Cardinality(RunStarts(words)) = 3
    /\ transcript = <<"A", ":", " ", "a", "\n", "A", ":", " ", "a">>

RECURSIVE SeqOfIndices(_, _, _)
\* The elements of s at the indices of K, from index i on, in order.
SeqOfIndices(s, K, i) ==
    IF i > Len(s) THEN << >>
    ELSE (IF i \in K THEN <<s[i]>> ELSE << >>) \o SeqOfIndices(s, K, i + 1)

\* The whitespace of s that stands, with nothing but whitespace between, in
\* front of a character of [.,!?;:].
SpaceBeforePunctuation(s) ==
    {i \in 1..Len(s) :
        /\ IsSpace(s[i])
        /\ \E j \in (i + 1)..Len(s) :
              /\ s[j] \in PunctuationChars
              /\ \A k \in i..(j - 1) : IsSpace(s[k])}

\* s without the whitespace in front of its punctuation characters.
Hugged(s) == SeqOfIndices(s, (1..Len(s)) \ SpaceBeforePunctuation(s), 1)

RECURSIVE TextsOf(_)
TextsOf(toks) == IF toks = << >> THEN << >> ELSE <<Head(toks).text>> \o TextsOf(Tail(toks))

RECURSIVE KindJoined(_)
\* The text C4 states for a run: one space between two tokens, none in front
\* of a token of kind punctuation.
KindJoined(toks) ==
    IF toks = << >> THEN << >>
    ELSE IF Len(toks) = 1 THEN toks[1].text
    ELSE LET rest == KindJoined(SubSeq(toks, 1, Len(toks) - 1))
             last == toks[Len(toks)]
         IN  rest \o (IF last.type = "punctuation" THEN << >> ELSE <<" ">>) \o last.text

\* The text the code gives a run: joined with spaces, punctuation hugged.
CharJoined(toks) == Hugged(JoinWith(TextsOf(toks), <<" ">>))

RECURSIVE LinesFrom(_, _, _)
\* One line per run holding a token that is not spacing, its text joined by
\* token kind (byKind) or by character.
LinesFrom(ws, i, byKind) ==
    IF i > Len(ws) THEN << >>
    ELSE (IF i \in TextRunStarts(ws)
          THEN <<ws[i].speaker_id \o <<":", " ">>
                 \o (IF byKind THEN KindJoined(RunTokens(ws, i))
                     ELSE CharJoined(RunTokens(ws, i)))>>
          ELSE << >>) \o LinesFrom(ws, i + 1, byKind)

\* C4 as stated: each line is "<speakerId>: <text>" with one space between
\* two tokens except that a punctuation token has none before it, and a space
\* is removed in front of punctuation tokens only.
C4_SpaceByTokenKind ==
    assembled => transcript = JoinWith(LinesFrom(words, 1, TRUE), <<"\n">>)

\* C4 as amended: each line is "<speakerId>: <text>" where <text> is the texts
\* of the run's non-spacing tokens joined with single spaces, from which all
\* whitespace in front of a character . , ! ? ; : is removed, whatever the
\* kind of the token that character belongs to; no other space is removed.
C4_SpaceByCharacter ==
    assembled => transcript = JoinWith(LinesFrom(words, 1, FALSE), <<"\n">>)

\* A line in which the space in front of a word (".b") was removed and the
\* space in front of a punctuation token ("-") was kept.
C4_Witness ==
    /\ assembled
    /\ words = <<[text |-> <<"a">>, type |-> "word", speaker_id |-> <<"A">>],
                 [text |-> <<".", "b">>, type |-> "word", speaker_id |-> <<"A">>],
                 [text |-> <<"-">>, type |-> "punctuation", speaker_id |-> <<"A">>]>>
    /\ transcript = <<"A", ":", " ", "a", ".", "b", " ", "-">>

(***************************************************************************)
(* readLibraryStructure, folderTreeToString and the prompt choice of       *)
(* classifyAndOrganize (src/index.ts:150-239, 286-290)                     *)
(***************************************************************************)

\* The entry names fs.readdir lists, in its order.
EntryNames == <<"a", "b", "x">>

\* The paths below the root an entry can be at: two at the top, one in each.
LibraryPaths == {<<"a">>, <<"b">>, <<"a", "x">>, <<"b", "x">>}

\* What a directory's metadata.json holds: there is none, text that is not
\* JSON, or the JSON of null, false, 0, "", {} or a TranscriptMetadata record.
MetadataContents ==
    {"absent", "not-json", "json-null", "json-false", "json-0",
     "json-empty-string", "json-empty-object", "json-record"}

DiskEntries ==
    {[kind |-> "none"], [kind |-> "file"]} \cup
    {[kind |-> "dir", metadata |-> c] : c \in MetadataContents}

\* An entry exists only inside a directory.
WellFormedDisk(d) ==
    \A p \in LibraryPaths :
        (Len(p) > 1 /\ d[p].kind # "none") => d[SubSeq(p, 1, Len(p) - 1)].kind = "dir"

\* await fs.readFile(metadataPath, 'utf8') followed by JSON.parse: throws when
\* there is no file or its text is not JSON, else gives the parsed value.
ReadAndParse(content) ==
    IF content \in {"absent", "not-json"}
    THEN [threw |-> TRUE]
    ELSE [threw |-> FALSE, value |-> content]

\* A mutant of LoadMetadata: only a missing file gives undefined; text that
\* is not JSON is kept as the value.
LoadMetadataAnyFile(content) ==
    IF content = "absent" THEN "undefined" ELSE content

\* let metadata; try { metadata = JSON.parse(await fs.readFile(...)) } catch {}
\* (lines 177-184): undefined when the read or the parse threw.
LoadMetadata(content) ==
    IF ReadAndParse(content).threw THEN "undefined" ELSE ReadAndParse(content).value

\* if (metadata): JavaScript truthiness of the loaded value.
Truthy(v) == v \notin {"undefined", "json-null", "json-false", "json-0", "json-empty-string"}

\* The entries fs.readdir gives for the directory at path p, in order.
Readdir(d, p) ==
    SelectSeq(EntryNames,
              LAMBDA n : Append(p, n) \in LibraryPaths /\ d[Append(p, n)].kind # "none")

RECURSIVE readDir(_, _)
RECURSIVE ReadEntries(_, _, _)
\* The for loop of readDir over the entries of p (lines 170-205).
ReadEntries(d, p, names) ==
    IF names = << >> THEN << >>
    ELSE LET fullPath == Append(p, Head(names))
             entry == d[fullPath]
             metadata == LoadMetadata(entry.metadata)
             node == IF Truthy(metadata)
                     THEN [name |-> Head(names), path |-> fullPath,
                           type |-> "transcript", metadata |-> metadata]
                     ELSE [name |-> Head(names), path |-> fullPath,
                           type |-> "folder", children |-> readDir(d, fullPath)]
         IN  (IF entry.kind = "dir" THEN <<node>> ELSE << >>)
                 \o ReadEntries(d, p, Tail(names))

\* async function readDir(dirPath, relativePath)
readDir(d, p) == ReadEntries(d, p, Readdir(d, p))

\* The FolderNode of the root with the given children.
RootNode(children) ==
    [name |-> "transcripts", path |-> BASE_TRANSCRIPTS_DIR, type |-> "folder",
     children |-> children]

\* theme.summary and theme.primaryTheme of a metadata value: reading them
\* throws a TypeError when the value has no theme.
HasTheme(metadata) == metadata = "json-record"

RECURSIVE folderTreeLines(_, _)
RECURSIVE ChildrenLines(_, _)
\* The lines folderTreeToString(node, indent) joins (lines 222-239), with
\* "[transcript] " and "[folder] " for the two emoji markers and fixed words
\* for the summary and the theme of a metadata record.
folderTreeLines(node, indent) ==
    IF node.type = "transcript"
    THEN <<indent \o "[transcript] " \o node.name,
           indent \o "   Summary: summary",
           indent \o "   Theme: primaryTheme > subTheme">>
    ELSE (IF indent # "" THEN <<indent \o "[folder] " \o node.name \o "/">> ELSE << >>)
            \o ChildrenLines(node.children, indent \o "  ")

ChildrenLines(children, indent) ==
    IF children = << >> THEN << >>
    ELSE folderTreeLines(Head(children), indent) \o ChildrenLines(Tail(children), indent)

RECURSIVE JoinLines(_)
\* lines.join('\n') on strings.
JoinLines(lines) ==
    IF lines = << >> THEN ""
    ELSE IF Len(lines) = 1 THEN lines[1]
    ELSE lines[1] \o "\n" \o JoinLines(Tail(lines))

RECURSIVE NodesOf(_)
\* The nodes of a node sequence with those below them, as path and type.
NodesOf(nodes) ==
    IF nodes = << >> THEN {}
    ELSE {[path |-> Head(nodes).path, type |-> Head(nodes).type]}
            \cup (IF Head(nodes).type = "folder" THEN NodesOf(Head(nodes).children) ELSE {})
            \cup NodesOf(Tail(nodes))

RECURSIVE MetadataOf(_)
\* The metadata values of the transcript nodes of a node sequence.
MetadataOf(nodes) ==
    IF nodes = << >> THEN {}
    ELSE (IF Head(nodes).type = "transcript" THEN {Head(nodes).metadata}
          ELSE MetadataOf(Head(nodes).children))
            \cup MetadataOf(Tail(nodes))

LibInit ==
    /\ rootExists \in BOOLEAN
    /\ disk \in {d \in [LibraryPaths -> DiskEntries] :
                    /\ WellFormedDisk(d)
                    /\ ~rootExists => \A p \in LibraryPaths : d[p].kind = "none"}
    /\ libPc = "access"
    /\ tree = NoValue
    /\ folderTreeString = ""
    /\ prompt = "none"

LibIdle ==
    /\ rootExists = FALSE
    /\ disk = [p \in LibraryPaths |-> [kind |-> "none"]]
    /\ libPc = "off"
    /\ tree = NoValue
    /\ folderTreeString = ""
    /\ prompt = "none"

\* try { await fs.access(baseDir) } catch { return { ..., children: [] } }
AccessBase ==
    /\ libPc = "access"
    /\ IF rootExists
       THEN libPc' = "readDir" /\ tree' = tree
       ELSE libPc' = "returned" /\ tree' = RootNode(<< >>)
    /\ UNCHANGED <<rootExists, disk, folderTreeString, prompt>>
    /\ UNCHANGED notLibVars

\* const children = await readDir(baseDir); return { ..., children }
ReadTree ==
    /\ libPc = "readDir"
    /\ tree' = RootNode(readDir(disk, << >>))
    /\ libPc' = "returned"
    /\ UNCHANGED <<rootExists, disk, folderTreeString, prompt>>
    /\ UNCHANGED notLibVars

\* A mutant of HasExistingTranscripts: the length test is dropped, and a
\* children list, empty or not, is truthy.
HasChildrenList(node) == Len(node.children) >= 0

\* const hasExistingTranscripts =
\*     libraryStructure.children && libraryStructure.children.length > 0
HasExistingTranscripts(node) == Len(node.children) > 0

\* classifyAndOrganize up to the prompt (lines 282-342): folderTreeToString
\* throws on a transcript node whose metadata has no theme; otherwise the
\* prompt is chosen by hasExistingTranscripts.
BuildPrompt ==
    /\ libPc = "returned"
    /\ IF \E m \in MetadataOf(tree.children) : ~HasTheme(m)
       THEN libPc' = "raised" /\ UNCHANGED <<folderTreeString, prompt>>
       ELSE /\ folderTreeString' = JoinLines(folderTreeLines(tree, ""))
            /\ prompt' = IF HasExistingTranscripts(tree) THEN "incremental" ELSE "bootstrap"
            /\ libPc' = "prompted"
    /\ UNCHANGED <<rootExists, disk, tree>>
    /\ UNCHANGED notLibVars

LibNext == AccessBase \/ ReadTree \/ BuildPrompt

(***************************************************************************)
(* Properties of the library read and the prompt choice                    *)
(***************************************************************************)

\* The directories of the disk.
Directories == {p \in LibraryPaths : disk[p].kind = "dir"}

\* The non-empty proper prefixes of a path.
Ancestors(p) == {SubSeq(p, 1, k) : k \in 1..(Len(p) - 1)}

\* The directory's metadata.json is present and parses as JSON.
MetadataParses(p) == disk[p].metadata \notin {"absent", "not-json"}

\* ... and the parsed value is a truthy one (not null, false, 0 or "").
MetadataParsesTruthy(p) ==
    MetadataParses(p) /\ disk[p].metadata \notin {"json-null", "json-false", "json-0", "json-empty-string"}

\* C5 as stated: the nodes of the tree are the directories no ancestor of
\* which is a transcript, a directory being a transcript exactly when its
\* metadata.json is present and parses, whatever the parsed value; files are
\* no nodes and the read returns.
C5_TranscriptIffParses ==
    (libPc \in {"returned", "prompted", "raised"}) =>
        NodesOf(tree.children) =
            {[path |-> p, type |-> IF MetadataParses(p) THEN "transcript" ELSE "folder"] :
                p \in {q \in Directories : \A a \in Ancestors(q) : ~MetadataParses(a)}}

\* C5 as amended: a directory is a transcript node exactly when its
\* metadata.json is present, parses as JSON and the parsed value is truthy;
\* every other directory (no metadata.json, one that fails to parse, or one
\* that parses to null, false, 0 or "") is a folder node whose subdirectories
\* are recursed into; plain files are no nodes; and whatever the metadata
\* files hold, the read returns a tree.
C5_TranscriptIffParsesTruthy ==
    /\ libPc \in {"access", "readDir", "returned", "prompted", "raised"}
    /\ (libPc = "raised") => (tree # NoValue)
    /\ (libPc \in {"returned", "prompted", "raised"}) =>
          /\ tree.type = "folder"
          /\ NodesOf(tree.children) =
                {[path |-> p,
                  type |-> IF MetadataParsesTruthy(p) THEN "transcript" ELSE "folder"] :
                    p \in {q \in Directories :
                              \A a \in Ancestors(q) : ~MetadataParsesTruthy(a)}}

\* The read returned a tree in which a directory whose metadata.json holds
\* null is a folder with its subdirectory below it, beside a transcript and a
\* directory whose metadata.json does not parse.
C5_Witness ==
    /\ libPc = "returned"
    /\ disk[<<"a">>] = [kind |-> "dir", metadata |-> "json-null"]
    /\ disk[<<"a", "x">>] = [kind |-> "dir", metadata |-> "not-json"]
    /\ disk[<<"b">>] = [kind |-> "dir", metadata |-> "json-record"]
    /\ disk[<<"b", "x">>] = [kind |-> "file"]
    /\ NodesOf(tree.children) =
          {[path |-> <<"a">>, type |-> "folder"],
           [path |-> <<"a", "x">>, type |-> "folder"],
           [path |-> <<"b">>, type |-> "transcript"]}

\* C6: the incremental prompt is used exactly when the library tree holds a
\* transcript entry, and the bootstrap prompt whenever it holds none.
C6_IncrementalIffTranscript ==
    (libPc = "prompted") =>
        (prompt = "incremental"
            <=> \E n \in NodesOf(tree.children) : n.type = "transcript")

\* C11: when the archive root does not exist, readLibraryStructure raises
\* nothing and returns the root folder node with an empty children list;
\* folderTreeToString of that tree is the empty string, and
\* classifyAndOrganize goes on to build the bootstrap prompt with an empty
\* tree digest.
C11_AbsentRootIsEmptyLibrary ==
    ~rootExists =>
        /\ libPc \in {"access", "returned", "prompted"}
        /\ (libPc \in {"returned", "prompted"}) =>
              /\ tree = [name |-> "transcripts", path |-> BASE_TRANSCRIPTS_DIR,
                         type |-> "folder", children |-> << >>]
              /\ JoinLines(folderTreeLines(tree, "")) = ""
        /\ (libPc = "prompted") => (prompt = "bootstrap" /\ folderTreeString = "")

\* The root is absent, the read has returned and the bootstrap prompt has
\* been built.
C11_Witness ==
    /\ ~rootExists
    /\ libPc = "prompted"
    /\ prompt = "bootstrap"
    /\ tree.children = << >>

(***************************************************************************)
(* estimateTokens and truncateTranscript (src/index.ts:244-271)            *)
(***************************************************************************)

\* The longest text.
MaxTextLen == 9

\* The largest token ceiling.
MaxCeiling == 2

\* The characters of a text.
TextChars == {"a", "b"}

\* "\n\n[... middle section ...]\n\n"
MiddleMarker ==
    <<"\n", "\n", "[", ".", ".", ".", " ", "m", "i", "d", "d", "l", "e",
      " ", "s", "e", "c", "t", "i", "o", "n", " ", ".", ".", ".", "]",
      "\n", "\n">>

\* "\n\n[... later section ...]\n\n"
LaterMarker ==
    <<"\n", "\n", "[", ".", ".", ".", " ", "l", "a", "t", "e", "r", " ",
      "s", "e", "c", "t", "i", "o", "n", " ", ".", ".", ".", "]", "\n",
      "\n">>

Min(a, b) == IF a < b THEN a ELSE b
Max(a, b) == IF a > b THEN a ELSE b

\* String.prototype.slice(start, end): a negative index counts from the end,
\* both are clamped to 0..length, and the result is empty unless start < end.
Slice(s, start, end) ==
    LET from == IF start < 0 THEN Max(Len(s) + start, 0) ELSE Min(start, Len(s))
        to == IF end < 0 THEN Max(Len(s) + end, 0) ELSE Min(end, Len(s))
    IN  IF from < to THEN SubSeq(s, from + 1, to) ELSE << >>

\* String.prototype.slice(start): to the end of the string.
SliceFrom(s, start) == Slice(s, start, Len(s))

\* function estimateTokens(text): Math.ceil(text.length / 4)
estimateTokens(s) == (Len(s) + 3) \div 4

\* A mutant of MiddleStart: the middle excerpt starts at the midpoint.
MiddleStartAtMidpoint(length, chunkSize) == length \div 2

\* Math.floor(text.length / 2 - chunkSize / 2)
MiddleStart(length, chunkSize) == (length - chunkSize) \div 2

\* Math.floor(text.length / 2 + chunkSize / 2)
MiddleEnd(length, chunkSize) == (length + chunkSize) \div 2

\* function truncateTranscript(text, maxTokens)
truncateTranscript(s, ceiling) ==
    IF estimateTokens(s) <= ceiling THEN s
    ELSE LET targetChars == ceiling * 4
             chunkSize == targetChars \div 3
             beginning == Slice(s, 0, chunkSize)
             middle == Slice(s, MiddleStart(Len(s), chunkSize),
                             MiddleEnd(Len(s), chunkSize))
             end == SliceFrom(s, 0 - chunkSize)
         IN  beginning \o MiddleMarker \o middle \o LaterMarker \o end

TruncInit ==
    /\ text \in SeqsUpTo(TextChars, MaxTextLen)
    /\ maxTokens \in 0..MaxCeiling
    /\ truncated = << >>
    /\ truncPc = "ready"

TruncIdle ==
    /\ text = << >>
    /\ maxTokens = 0
    /\ truncated = << >>
    /\ truncPc = "off"

\* const processedTranscript = truncateTranscript(transcript)
Truncate ==
    /\ truncPc = "ready"
    /\ truncated' = truncateTranscript(text, maxTokens)
    /\ truncPc' = "done"
    /\ UNCHANGED <<text, maxTokens>>
    /\ UNCHANGED notTruncVars

(***************************************************************************)
(* Properties of truncateTranscript                                        *)
(***************************************************************************)

\* The excerpt size k = floor(ceiling * 4 / 3).
ExcerptSize == (maxTokens * 4) \div 3

\* Where the middle excerpt starts: floor((len - k) / 2) characters in.
ExcerptMiddle == (Len(text) - ExcerptSize) \div 2

\* The three excerpts have k characters each, do not overlap and are in
\* document order.
ExcerptsDisjoint ==
    /\ ExcerptSize <= ExcerptMiddle
    /\ ExcerptMiddle + ExcerptSize <= Len(text) - ExcerptSize

C10_FitsWithinCeiling ==
    (truncPc = "done" /\ maxTokens >= 1) =>
        /\ estimateTokens(truncated) <= maxTokens
        /\ truncateTranscript(truncated, maxTokens) = truncated

(***************************************************************************)
(* Specifications                                                          *)
(***************************************************************************)

MainIdle ==
    /\ pc = "off"
    /\ inputKind = "none"
    /\ title = "none"
    /\ titleLookupFailed = FALSE
    /\ needsCleanup = FALSE
    /\ tmpAudio = FALSE
    /\ response = NoValue
    /\ plan = NoValue
    /\ outputDir = << >>
    /\ themeInfo = NoValue
    /\ dirs = {}
    /\ files = {}
    /\ writes = [a \in Artifacts |-> "idle"]
    /\ err = "none"
    /\ exitCode = 0
    /\ cleanup = "none"
    /\ audioPath = << >>
    /\ inputPresent = FALSE
    /\ unlinked = {}

\* One run of main.
Init == MainInit /\ AsmIdle /\ LibIdle /\ TruncIdle

Next == MainNext

Spec == Init /\ [][Next]_vars

\* wordsToTranscript applied to a token sequence.
InitAssembler == AsmInit /\ MainIdle /\ LibIdle /\ TruncIdle

NextAssembler == Assemble

SpecAssembler == InitAssembler /\ [][NextAssembler]_vars

\* The library read followed by the building of the classification prompt.
InitLibrary == LibInit /\ MainIdle /\ AsmIdle /\ TruncIdle

NextLibrary == LibNext

SpecLibrary == InitLibrary /\ [][NextLibrary]_vars

\* truncateTranscript applied to a text and a ceiling.
InitTruncate == TruncInit /\ MainIdle /\ AsmIdle /\ LibIdle

NextTruncate == Truncate

SpecTruncate == InitTruncate /\ [][NextTruncate]_vars
===========================================================================
